---- MODULE Spec2Model ----
(***************************************************************************)
(* A model of three pieces of py-gpt:                                      *)
(*   - core/chain/__init__.py      Chain.call (LangChain dispatch)         *)
(*   - controller/mode.py          Mode controller (mode selection lock)   *)
(*   - controller/idx/__init__.py  Idx controller (index selection lock)   *)
(* Each piece has its own specification (SpecChain, SpecMode, SpecIdx);    *)
(* the variables of the other pieces stay as Init left them.               *)
(***************************************************************************)
EXTENDS Integers, Sequences, FiniteSets, TLC

VARIABLES
    \* ---- Chain.call: the last call's arguments and what it did
    chIn,          \* arguments of the last call (called = FALSE before any)
    chSent,        \* wrappers invoked by the last call, in order
    chResp,        \* value the invoked wrapper returned (or that it raised)
    chSetOutput,   \* ctx.set_output(output, name) calls of the last call
    chCtx,         \* ctx.stream / ctx.input_tokens after the last call
    chRet,         \* "True", "False", "raise" ("-" before any call)
    \* ---- Mode controller
    generating,    \* window.controller.chat.input.generating
    cfg,           \* config keys 'mode', 'model', 'preset'
    ctxCurrent,    \* window.core.ctx.current
    ctxAssistant,  \* window.core.ctx.assistant
    events,        \* events handed to window.core.dispatcher.dispatch
    modeTrace,     \* config writes, external calls and dispatches of the last handler
    modeOp,        \* the last Mode handler and its argument
    modePre,       \* generating, cfg and events when that handler was entered
    \* ---- Idx controller
    current_idx,   \* Idx.current_idx
    locked,        \* Idx.locked
    cfgIdx,        \* config key 'llama.idx.current'
    cfgList,       \* config key 'llama.idx.list'
    idxPc,         \* where a running setup() / update() stands ("idle": none running)
    inSetup,       \* the running update() was called by setup()
    setupDone,     \* setup() has returned at least once
    uiUpdated,     \* the last handler called window.controller.ui.update()
    idxOp,         \* the last Idx handler and its argument
    idxPre         \* current_idx, cfgIdx, locked and idxPc when it was entered

chainVars == <<chIn, chSent, chResp, chSetOutput, chCtx, chRet>>
modeVars == <<generating, cfg, ctxCurrent, ctxAssistant, events, modeTrace, modeOp, modePre>>
idxVars == <<current_idx, locked, cfgIdx, cfgList, idxPc, inSetup, setupDone, uiUpdated,
             idxOp, idxPre>>
vars == <<chainVars, modeVars, idxVars>>

\* Python's None, for values that are otherwise strings.
None == "None"

(***************************************************************************)
(* Chain.call                                                              *)
(***************************************************************************)

\* Largest token count a wrapper reports.
MaxTokens == 1

\* Entries a model's langchain 'mode' list may hold.
SubModes == {"chat", "completion", "embedding"}

\* model.langchain: a dict without the 'mode' key, or with a list under it.
NoModeKey == [k \in {} |-> {}]
Langchains == {NoModeKey} \cup {[mode |-> m] : m \in SUBSET SubModes}

Texts == {"hi", "bye"}
Names == {None, "AI"}

Str(c) == [type |-> "str", content |-> c]
Message(c) == [type |-> "message", content |-> c]
NoResponse == [type |-> "NoneType", content |-> None]

\* What chat.send / completion.send hand back: a message object (chat), a plain
\* string (completion), None, or an exception.
Returns(wrapper) ==
    {NoResponse} \cup {IF wrapper = "chat" THEN Message(c) ELSE Str(c) : c \in Texts}

SubModeCompletionFirst(langchain) ==
    IF "mode" \in DOMAIN langchain
    THEN IF "completion" \in langchain.mode THEN "completion"
         ELSE "chat"
    ELSE "chat"

\* lines 49-56
SubMode(langchain) ==
    IF "mode" \in DOMAIN langchain
    THEN IF "chat" \in langchain.mode THEN "chat"
         ELSE IF "completion" \in langchain.mode THEN "completion"
         ELSE "chat"
    ELSE "chat"

OutputIsResponse(sub_mode, response) == response

\* lines 96-101
Output(sub_mode, response) ==
    IF sub_mode = "chat" THEN Str(response.content)
    ELSE IF sub_mode = "completion" THEN response
    ELSE NoResponse

\* lines 58-80: the wrapper method the call invokes
Sent(sub_mode) ==
    IF sub_mode = "chat" THEN <<"chat.send">>
    ELSE IF sub_mode = "completion" THEN <<"completion.send">>
    ELSE <<>>

\* lines 29-106: one call, from its arguments to its return (or raise).
ChainCall(langchain, stream, ctxName, raises, response, tokens) ==
    LET sub_mode == SubMode(langchain)
        ai_name == ctxName   \* ctx.output_name; None for a fresh CtxItem()
    IN  /\ chIn' = [called |-> TRUE, langchain |-> langchain, stream |-> stream,
                    output_name |-> ai_name]
        /\ chSent' = Sent(sub_mode)
        /\ IF raises
           THEN /\ chResp' = NoResponse
                /\ chSetOutput' = <<>>
                /\ chCtx' = [stream |-> NoResponse, input_tokens |-> 0]
                /\ chRet' = "raise"
           ELSE /\ chResp' = response
                /\ IF stream
                   THEN /\ chCtx' = [stream |-> response, input_tokens |-> tokens]
                        /\ chSetOutput' = <<[output |-> Str(""), name |-> ai_name]>>
                        /\ chRet' = "True"
                   ELSE /\ chCtx' = [stream |-> NoResponse, input_tokens |-> 0]
                        /\ IF response = NoResponse
                           THEN /\ chSetOutput' = <<>>
                                /\ chRet' = "False"
                           ELSE /\ chSetOutput' =
                                      <<[output |-> Output(sub_mode, response),
                                         name |-> ai_name]>>
                                /\ chRet' = "True"
        /\ UNCHANGED <<modeVars, idxVars>>

Call ==
    \E langchain \in Langchains, stream \in BOOLEAN, ctxName \in Names,
       raises \in BOOLEAN, tokens \in 0..MaxTokens :
        \E response \in Returns(SubMode(langchain)) :
            ChainCall(langchain, stream, ctxName, raises, response, tokens)

InitChain ==
    /\ chIn = [called |-> FALSE, langchain |-> NoModeKey, stream |-> FALSE,
               output_name |-> None]
    /\ chSent = <<>>
    /\ chResp = NoResponse
    /\ chSetOutput = <<>>
    /\ chCtx = [stream |-> NoResponse, input_tokens |-> 0]
    /\ chRet = "-"

(***************************************************************************)
(* Mode controller                                                         *)
(***************************************************************************)

\* Events the dispatcher log holds before the model stops dispatching.
MaxEvents == 2

\* window.core.modes: the rows of the mode list.
Modes == <<"chat", "completion", "assistant">>
ModeRows == 0..(Len(Modes) - 1)

\* What the model / preset controllers may leave in the config on a UI update.
ModelChoices == {"", "gpt-4"}
PresetChoices == {"", "current.chat"}
CtxIds == {None, "7"}

\* window.core.modes.get_by_idx(idx), as Mode.select uses it (line 35)
ModesGetByIdx(idx) == Modes[idx + 1]

\* window.core.modes.get_default(), as Mode.select_default uses it (line 92)
ModesGetDefault == Modes[1]

CfgSet(key, value) == [kind |-> "config.set", key |-> key, value |-> value]
Called(what, arg) == [kind |-> "call", key |-> what, value |-> arg]
Dispatched(name, value) == [kind |-> "dispatch", key |-> name, value |-> value]

Event(name, value) == [name |-> name, value |-> value]

ModeNeverLocked == FALSE

\* lines 171-178
ModeChangeLocked == generating

\* lines 88-92: the mode Mode.select_default leaves in the config
SelectDefaultMode(mode) ==
    IF mode = None \/ mode = "" THEN ModesGetDefault ELSE mode

\* lines 43-78: what Mode.set(mode) does, in order
SetTrace(mode) ==
    (IF mode = "assistant"
     THEN <<Called("presets.select_default", "")>>
          \o (IF ctxCurrent # None /\ ctxAssistant # None
              THEN <<Called("assistant.select_by_id", ctxAssistant)>>
              ELSE <<Called("assistant.select_current", "")>>)
     ELSE <<>>)
    \o <<CfgSet("mode", mode), CfgSet("model", ""), CfgSet("preset", ""),
         Called("attachment.update", ""), Called("ctx.update_ctx", ""),
         Called("ui.update", ""), Called("ui.status", "status.started")>>
    \o (IF mode = "assistant"
        THEN <<Called("ctx.common.update_label_by_current", "")>>
        ELSE <<>>)

\* lines 60-71: the config after Mode.set(mode); ui.update() lets the model and
\* preset controllers choose for the new mode and runs Mode.update_mode.
SetConfig(mode, model, preset) ==
    [mode |-> SelectDefaultMode(mode), model |-> model, preset |-> preset]

ModeSnapshot == [generating |-> generating, cfg |-> cfg, events |-> events]

\* lines 26-41
ModeSelect(idx) ==
    /\ modeOp' = [op |-> "select", arg |-> idx]
    /\ modePre' = ModeSnapshot
    /\ IF ModeChangeLocked
       THEN /\ modeTrace' = <<>>
            /\ UNCHANGED <<cfg, events>>
       ELSE LET mode == ModesGetByIdx(idx)
            IN  /\ Len(events) < MaxEvents
                /\ \E model \in ModelChoices, preset \in PresetChoices :
                       cfg' = SetConfig(mode, model, preset)
                /\ events' = Append(events, Event("MODE_SELECT", mode))
                /\ modeTrace' = SetTrace(mode) \o <<Dispatched("MODE_SELECT", mode)>>
    /\ UNCHANGED <<generating, ctxCurrent, ctxAssistant>>
    /\ UNCHANGED <<chainVars, idxVars>>

\* lines 158-163 (select_default, lines 88-92, is the only part touching the config)
ModeUpdateMode ==
    /\ modeOp' = [op |-> "update_mode", arg |-> 0]
    /\ modePre' = ModeSnapshot
    /\ cfg' = [cfg EXCEPT !.mode = SelectDefaultMode(cfg.mode)]
    /\ modeTrace' = (IF cfg.mode = None \/ cfg.mode = ""
                     THEN <<CfgSet("mode", ModesGetDefault)>> ELSE <<>>)
                    \o <<Called("toolbox.mode.update", ""),
                         Called("chat.vision.update", "")>>
    /\ UNCHANGED <<generating, ctxCurrent, ctxAssistant, events>>
    /\ UNCHANGED <<chainVars, idxVars>>

\* lines 141-156
ModeSwitchInline(idx) ==
    /\ Len(events) < MaxEvents
    /\ modeOp' = [op |-> "switch_inline", arg |-> idx]
    /\ modePre' = ModeSnapshot
    /\ events' = Append(events, Event("MODE_BEFORE", ModesGetByIdx(idx)))
    /\ modeTrace' = <<Dispatched("MODE_BEFORE", ModesGetByIdx(idx))>>
    /\ UNCHANGED <<generating, cfg, ctxCurrent, ctxAssistant>>
    /\ UNCHANGED <<chainVars, idxVars>>

\* chat.input.generating is raised when a response starts being generated ...
GenerationStart ==
    /\ ~generating
    /\ generating' = TRUE
    /\ UNCHANGED <<cfg, ctxCurrent, ctxAssistant, events, modeTrace, modeOp, modePre>>
    /\ UNCHANGED <<chainVars, idxVars>>

\* ... and dropped when it ends or is stopped.
GenerationStop ==
    /\ generating
    /\ generating' = FALSE
    /\ UNCHANGED <<cfg, ctxCurrent, ctxAssistant, events, modeTrace, modeOp, modePre>>
    /\ UNCHANGED <<chainVars, idxVars>>

InitMode ==
    /\ generating = FALSE
    /\ cfg = [mode |-> None, model |-> "", preset |-> ""]
    /\ ctxCurrent \in CtxIds
    /\ ctxAssistant \in CtxIds
    /\ events = <<>>
    /\ modeTrace = <<>>
    /\ modeOp = [op |-> "none", arg |-> 0]
    /\ modePre = [generating |-> FALSE, cfg |-> [mode |-> None, model |-> "", preset |-> ""],
                  events |-> <<>>]

(***************************************************************************)
(* Idx controller                                                          *)
(***************************************************************************)

\* Number of indexes in 'llama.idx.list'.
NumIdx == 2

AllIdx == <<"base", "docs", "notes", "code">>

\* The configured list of indexes (their ids), when the key is present.
IdxList == SubSeq(AllIdx, 1, NumIdx)

\* Rows a list widget or a caller may pass: those of the list and one past it.
IdxRows == 0..NumIdx

\* Ids select_by_id / set may be given: the listed ones, one that is not listed, None.
IdxIds == {AllIdx[i] : i \in 1..(NumIdx + 1)} \cup {None}

\* window.core.idx.get_by_idx(idx), as set_by_idx uses it (lines 128-130): the
\* id at that row, or None when the row resolves to no index.
IdxGetByIdx(row) ==
    IF cfgList # None /\ row \in 0..(Len(cfgList) - 1) THEN cfgList[row + 1] ELSE None

\* window.core.idx.get_default_idx(), as select_default uses it (lines 147-148):
\* a listed id, or None.
DefaultIdxChoices ==
    {None} \cup (IF cfgList = None THEN {} ELSE {cfgList[i] : i \in 1..Len(cfgList)})

IdxNeverLocked == FALSE

\* lines 227-233
IdxChangeLocked == locked

\* lines 143-149: current_idx after select_default, `d` being get_default_idx()
AfterSelectDefault(cur, d) ==
    IF cfgIdx = None
    THEN IF d # None THEN d ELSE cur
    ELSE cur

SelectByIdConfigOnly(id) == [cfg |-> id, current_idx |-> current_idx]

\* lines 74-75: select_by_id writes the id to the config and to current_idx
AfterSelectById(id) == [cfg |-> id, current_idx |-> id]

\* lines 86-87: so does set
AfterSet(idx) == [cfg |-> idx, current_idx |-> idx]

\* lines 122-132
AfterSetByIdx(row) ==
    LET idx == IdxGetByIdx(row)
    IN  IF idx = None
        THEN [cfg |-> cfgIdx, current_idx |-> current_idx]
        ELSE [cfg |-> idx, current_idx |-> idx]

IdxSnapshot ==
    [current_idx |-> current_idx, cfg |-> cfgIdx, locked |-> locked, pc |-> idxPc,
     inSetup |-> inSetup, setupDone |-> setupDone]

\* A list widget emits its change signal while update() is rebuilding it
\* (update_list, lines 159-161) or setting its value (select_current, lines
\* 136-141); the signal re-enters select / select_by_id.
WidgetFires ==
    \/ idxPc = "update_list" /\ cfgList # None
    \/ idxPc = "select_current" /\ cfgIdx # None /\ cfgList # None

CanSelect == idxPc = "idle" \/ WidgetFires

SetupNoLock(op) ==
    /\ idxPc = "idle"
    /\ idxOp' = [op |-> op, arg |-> 0]
    /\ idxPre' = IdxSnapshot
    /\ locked' = FALSE
    /\ \E d \in DefaultIdxChoices :
           current_idx' = AfterSelectDefault(IF cfgIdx # None THEN cfgIdx ELSE current_idx, d)
    /\ idxPc' = "update_list"
    /\ inSetup' = TRUE
    /\ uiUpdated' = FALSE
    /\ UNCHANGED <<cfgIdx, cfgList, setupDone>>
    /\ UNCHANGED <<chainVars, modeVars>>

\* lines 35-47, up to and including update()'s select_default (line 153)
SetupBegin(op) ==
    /\ idxPc = "idle"
    /\ idxOp' = [op |-> op, arg |-> 0]
    /\ idxPre' = IdxSnapshot
    /\ locked' = TRUE
    /\ \E d \in DefaultIdxChoices :
           current_idx' = AfterSelectDefault(IF cfgIdx # None THEN cfgIdx ELSE current_idx, d)
    /\ idxPc' = "update_list"
    /\ inSetup' = TRUE
    /\ uiUpdated' = FALSE
    /\ UNCHANGED <<cfgIdx, cfgList, setupDone>>
    /\ UNCHANGED <<chainVars, modeVars>>

\* lines 35-48
IdxSetup == SetupBegin("setup")

\* lines 235-237
IdxReload == SetupBegin("reload")

\* lines 151-153: update() called on its own
IdxUpdate ==
    /\ idxPc = "idle"
    /\ idxOp' = [op |-> "update", arg |-> 0]
    /\ idxPre' = IdxSnapshot
    /\ \E d \in DefaultIdxChoices : current_idx' = AfterSelectDefault(current_idx, d)
    /\ idxPc' = "update_list"
    /\ inSetup' = FALSE
    /\ uiUpdated' = FALSE
    /\ UNCHANGED <<locked, cfgIdx, cfgList, setupDone>>
    /\ UNCHANGED <<chainVars, modeVars>>

\* lines 154, 157-161
IdxUpdateList ==
    /\ idxPc = "update_list"
    /\ idxPc' = "select_current"
    /\ UNCHANGED <<current_idx, locked, cfgIdx, cfgList, inSetup, setupDone, uiUpdated,
                   idxOp, idxPre>>
    /\ UNCHANGED <<chainVars, modeVars>>

\* lines 155, 134-141: update() returns; inside setup(), line 48 follows
IdxSelectCurrent ==
    /\ idxPc = "select_current"
    /\ idxPc' = "idle"
    /\ inSetup' = FALSE
    /\ IF inSetup
       THEN locked' = FALSE /\ setupDone' = TRUE
       ELSE UNCHANGED <<locked, setupDone>>
    /\ UNCHANGED <<current_idx, cfgIdx, cfgList, uiUpdated, idxOp, idxPre>>
    /\ UNCHANGED <<chainVars, modeVars>>

\* lines 50-62
IdxSelect(row) ==
    /\ CanSelect
    /\ idxOp' = [op |-> "select", arg |-> row]
    /\ idxPre' = IdxSnapshot
    /\ IF IdxChangeLocked
       THEN /\ uiUpdated' = FALSE
            /\ UNCHANGED <<current_idx, cfgIdx>>
       ELSE /\ cfgIdx' = AfterSetByIdx(row).cfg
            /\ current_idx' = AfterSetByIdx(row).current_idx
            /\ uiUpdated' = TRUE
    /\ UNCHANGED <<locked, cfgList, idxPc, inSetup, setupDone>>
    /\ UNCHANGED <<chainVars, modeVars>>

\* lines 64-78
IdxSelectById(id) ==
    /\ CanSelect
    /\ idxOp' = [op |-> "select_by_id", arg |-> id]
    /\ idxPre' = IdxSnapshot
    /\ IF IdxChangeLocked
       THEN /\ uiUpdated' = FALSE
            /\ UNCHANGED <<current_idx, cfgIdx>>
       ELSE /\ cfgIdx' = AfterSelectById(id).cfg
            /\ current_idx' = AfterSelectById(id).current_idx
            /\ uiUpdated' = TRUE
    /\ UNCHANGED <<locked, cfgList, idxPc, inSetup, setupDone>>
    /\ UNCHANGED <<chainVars, modeVars>>

\* lines 80-87
IdxSet(id) ==
    /\ idxPc = "idle"
    /\ idxOp' = [op |-> "set", arg |-> id]
    /\ idxPre' = IdxSnapshot
    /\ cfgIdx' = AfterSet(id).cfg
    /\ current_idx' = AfterSet(id).current_idx
    /\ uiUpdated' = FALSE
    /\ UNCHANGED <<locked, cfgList, idxPc, inSetup, setupDone>>
    /\ UNCHANGED <<chainVars, modeVars>>

\* lines 122-132
IdxSetByIdx(row) ==
    /\ idxPc = "idle"
    /\ idxOp' = [op |-> "set_by_idx", arg |-> row]
    /\ idxPre' = IdxSnapshot
    /\ cfgIdx' = AfterSetByIdx(row).cfg
    /\ current_idx' = AfterSetByIdx(row).current_idx
    /\ uiUpdated' = FALSE
    /\ UNCHANGED <<locked, cfgList, idxPc, inSetup, setupDone>>
    /\ UNCHANGED <<chainVars, modeVars>>

\* lines 223-225
IdxRefresh ==
    /\ idxPc = "idle"
    /\ idxOp' = [op |-> "refresh", arg |-> 0]
    /\ idxPre' = IdxSnapshot
    /\ \E d \in DefaultIdxChoices : current_idx' = AfterSelectDefault(current_idx, d)
    /\ uiUpdated' = FALSE
    /\ UNCHANGED <<locked, cfgIdx, cfgList, idxPc, inSetup, setupDone>>
    /\ UNCHANGED <<chainVars, modeVars>>

\* lines 22-33; the persisted config is whatever the last session left
InitIdx ==
    /\ current_idx = "base"
    /\ locked = FALSE
    /\ cfgIdx \in IdxIds
    /\ cfgList \in {None, IdxList}
    /\ idxPc = "idle"
    /\ inSetup = FALSE
    /\ setupDone = FALSE
    /\ uiUpdated = FALSE
    /\ idxOp = [op |-> "none", arg |-> 0]
    /\ idxPre = [current_idx |-> "base", cfg |-> None, locked |-> FALSE, pc |-> "idle",
                 inSetup |-> FALSE, setupDone |-> FALSE]

(***************************************************************************)
(* Specifications                                                          *)
(***************************************************************************)

\* A fresh session: no context loaded, nothing about indexes persisted.
FreshMode == InitMode /\ ctxCurrent = None /\ ctxAssistant = None
FreshIdx == InitIdx /\ cfgIdx = None /\ cfgList = None

Init == InitChain /\ FreshMode /\ FreshIdx
InitModeSpec == InitChain /\ InitMode /\ FreshIdx
InitIdxSpec == InitChain /\ FreshMode /\ InitIdx

NextChain == Call

NextMode ==
    \/ \E idx \in ModeRows : ModeSelect(idx)
    \/ \E idx \in ModeRows : ModeSwitchInline(idx)
    \/ ModeUpdateMode
    \/ GenerationStart
    \/ GenerationStop

NextIdx ==
    \/ IdxSetup
    \/ IdxReload
    \/ IdxUpdate
    \/ IdxUpdateList
    \/ IdxSelectCurrent
    \/ \E row \in IdxRows : IdxSelect(row)
    \/ \E id \in IdxIds : IdxSelectById(id)
    \/ \E id \in IdxIds : IdxSet(id)
    \/ \E row \in IdxRows : IdxSetByIdx(row)
    \/ IdxRefresh

SpecChain == Init /\ [][NextChain]_vars
SpecMode == InitModeSpec /\ [][NextMode]_vars
SpecIdx == InitIdxSpec /\ [][NextIdx]_vars

(***************************************************************************)
(* Properties                                                              *)
(***************************************************************************)

SelectOps == {"select", "select_by_id"}

\* C1: every call invokes exactly one of chat.send / completion.send, and it is
\* completion.send if and only if model.langchain has a 'mode' entry that
\* contains 'completion' and does not contain 'chat'; chat.send otherwise.
C1_WrapperByMode ==
    chIn.called =>
        LET lc == chIn.langchain
            completionOnly ==
                /\ "mode" \in DOMAIN lc
                /\ "completion" \in lc.mode
                /\ "chat" \notin lc.mode
        IN  /\ Len(chSent) = 1
            /\ chSent[1] \in {"chat.send", "completion.send"}
            /\ (chSent[1] = "completion.send") <=> completionOnly
            /\ (chSent[1] = "chat.send") <=> ~completionOnly

\* A call for a model whose 'mode' lists completion (and not chat) went to
\* completion.send.
C1_Witness ==
    /\ chIn.called
    /\ "mode" \in DOMAIN chIn.langchain
    /\ chIn.langchain.mode = {"completion", "embedding"}
    /\ chSent = <<"completion.send">>

\* C2: a non-stream call whose wrapper returned a non-None response returns True
\* and sets the ctx output exactly once, under the name ctx.output_name, to
\* response.content (chat wrapper) or to the response itself (completion wrapper).
C2_OutputCopied ==
    (chIn.called /\ ~chIn.stream /\ chRet # "raise" /\ chResp # NoResponse) =>
        /\ chRet = "True"
        /\ Len(chSetOutput) = 1
        /\ chSetOutput[1].name = chIn.output_name
        /\ chSent = <<"chat.send">> =>
               /\ chResp.type = "message"
               /\ chSetOutput[1].output = Str(chResp.content)
        /\ chSent = <<"completion.send">> => chSetOutput[1].output = chResp
        /\ chSent \in {<<"chat.send">>, <<"completion.send">>}

\* A non-stream chat call that returned a message and stored its content.
C2_Witness ==
    /\ chIn.called /\ ~chIn.stream
    /\ chSent = <<"chat.send">>
    /\ chResp = Message("hi")
    /\ chIn.output_name = "AI"
    /\ chSetOutput = <<[output |-> Str("hi"), name |-> "AI"]>>
    /\ chRet = "True"

\* C3: a Mode.select issued while a response is being generated leaves the
\* config keys 'mode', 'model', 'preset' unchanged and dispatches nothing; one
\* issued otherwise sets the mode and dispatches exactly one MODE_SELECT event
\* carrying the selected mode, after the config writes.
C3_ModeLockedWhileGenerating ==
    modeOp.op = "select" =>
        LET mode == Modes[modeOp.arg + 1]
            dispatches == {i \in DOMAIN modeTrace : modeTrace[i].kind = "dispatch"}
            writes == {i \in DOMAIN modeTrace : modeTrace[i].kind = "config.set"}
        IN  IF modePre.generating
            THEN /\ cfg = modePre.cfg
                 /\ events = modePre.events
                 /\ dispatches = {}
                 /\ writes = {}
            ELSE /\ cfg.mode = mode
                 /\ events = Append(modePre.events, Event("MODE_SELECT", mode))
                 /\ Cardinality(dispatches) = 1
                 /\ \A i \in dispatches :
                        /\ modeTrace[i] = Dispatched("MODE_SELECT", mode)
                        /\ \A j \in writes : j < i
                 /\ \E j \in writes : modeTrace[j] = CfgSet("mode", mode)

\* A select arrived during generation, with a mode, model and preset in place
\* that it would have replaced.
C3_Witness ==
    /\ modeOp.op = "select"
    /\ modePre.generating
    /\ modePre.cfg.mode \notin {None, "", Modes[modeOp.arg + 1]}
    /\ modePre.cfg.model # ""
    /\ modePre.cfg.preset # ""
    /\ modePre.events # <<>>

\* C4: select / select_by_id called while Idx.locked is true leave current_idx
\* and 'llama.idx.current' unchanged and do not call ui.update().
C4_IdxLockedNoChange ==
    (idxOp.op \in SelectOps /\ idxPre.locked) =>
        /\ current_idx = idxPre.current_idx
        /\ cfgIdx = idxPre.cfg
        /\ ~uiUpdated

\* A locked select_by_id asked for an id other than the current one.
C4_Witness ==
    /\ idxOp.op = "select_by_id"
    /\ idxPre.locked
    /\ idxOp.arg \notin {None, idxPre.cfg, idxPre.current_idx}
    /\ idxPre.cfg # None

\* C5: Idx.locked is true throughout the update() inside setup / reload, so a
\* select / select_by_id fired by it is ignored; once setup has returned locked
\* is false whenever no setup is running, and a selection made then is not blocked.
C5_LockedOnlyDuringSetup ==
    /\ inSetup => (locked /\ idxPc # "idle")
    /\ (idxOp.op \in SelectOps /\ idxPre.inSetup) =>
           /\ current_idx = idxPre.current_idx
           /\ cfgIdx = idxPre.cfg
           /\ ~uiUpdated
    /\ (setupDone /\ idxPc = "idle") => ~locked
    /\ (idxOp.op \in SelectOps /\ idxPre.setupDone /\ idxPre.pc = "idle") =>
           /\ ~idxPre.locked
           /\ uiUpdated
           /\ idxOp.op = "select_by_id" =>
                  (cfgIdx = idxOp.arg /\ current_idx = idxOp.arg)

\* A select_by_id fired inside setup's update was ignored, and that setup has
\* since returned, leaving the controller unlocked.
C5_Witness ==
    /\ idxOp.op = "select_by_id"
    /\ idxPre.inSetup /\ idxPre.locked
    /\ idxOp.arg # idxPre.cfg
    /\ setupDone /\ idxPc = "idle" /\ ~locked

\* C6: once setup has run, whenever 'llama.idx.current' is not None,
\* current_idx equals it; a select / set_by_idx with a row that resolves to no
\* index changes neither.
C6_CurrentIdxInSync ==
    /\ (setupDone /\ cfgIdx # None) => current_idx = cfgIdx
    /\ (idxOp.op \in {"select", "set_by_idx"} /\ IdxGetByIdx(idxOp.arg) = None) =>
           /\ current_idx = idxPre.current_idx
           /\ cfgIdx = idxPre.cfg

\* After setup, a set_by_idx with a row past the list left a configured index
\* in place.
C6_Witness ==
    /\ setupDone
    /\ idxOp.op = "set_by_idx"
    /\ IdxGetByIdx(idxOp.arg) = None
    /\ cfgList # None
    /\ cfgIdx \notin {None, "base"}
    /\ current_idx = cfgIdx

====
